---- MODULE Spec2Model ----
(***************************************************************************)
(* Med_RAG: the agentic workflow of RAGAgent (rag_agent.py), the           *)
(* multi-provider generation layer LLMManager (llm_manager.py) and the     *)
(* coordinator SystemManager (system_manager.py) with the index it builds  *)
(* (vector_store.py, document_processor.py).                               *)
(*                                                                         *)
(* The specifications share the variables:                                 *)
(*   SpecLLM  one LLMManager, constructed by initialize_llms, serving      *)
(*            calls of generate_response;                                  *)
(*   Spec     one RAGAgent running process_query: the graph that           *)
(*            _build_workflow declares, one action per node and one for    *)
(*            the conditional edge _should_improve;                        *)
(*   SpecLive Spec with the workflow's steps weakly fair;                  *)
(*   SpecFault Spec with the graph engine raising during a run;            *)
(*   SpecSys  one SystemManager: initialize_system, rebuild_vector_store   *)
(*            and process_query, which hands the query to the agent the    *)
(*            coordinator constructed;                                     *)
(*   SpecConc SpecSys with a rebuild_vector_store of a second caller       *)
(*            running beside the calls of the first;                       *)
(*   SpecEval the evaluate node alone, on every assessment the words make. *)
(*                                                                         *)
(* Confidence values and the threshold are kept in hundredths (0.8 is 80). *)
(* A text is the set of words it contains; the empty string is {}.         *)
(* The graph engine is outside the repository: it is modelled by the edges *)
(* _build_workflow adds, handing each node and the branch function the     *)
(* state record the previous one left, as the in-place assignments of the  *)
(* source read.                                                            *)
(***************************************************************************)
EXTENDS Integers, Sequences, FiniteSets, TLC

VARIABLES
    google_llm,      \* LLMManager.google_llm: the handle, or None
    openai_llm,      \* LLMManager.openai_llm
    ollama_llm,      \* LLMManager.ollama_llm
    current_llm,     \* LLMManager.current_llm: what "auto" resolves to
    gen_provider,    \* the selector of the last generate_response call
    gen_oracle,      \* what each provider's invocations did during that call
    gen_result,      \* what that call returned, with the invocations it made
    agent_store,     \* RAGAgent.vector_store.vector_store: the index handle, or None
    threshold,       \* Config.CONFIDENCE_THRESHOLD
    state,           \* the AgentState of the running workflow
    pc,              \* the graph engine's position: the node to run next
    trace,           \* the nodes run so far in this execution
    result,          \* what process_query returned, or None
    gen_log,         \* how the generation calls of this execution ended
    gen_calls,       \* how many generation calls the nodes of this execution issued
    config_valid,    \* whether Config.validate_config() passes
    is_initialized,  \* SystemManager.is_initialized
    documents_processed, \* SystemManager.documents_processed
    rag_agent,       \* SystemManager.rag_agent: the agent, or None
    vector_store,    \* SystemManager.vector_store.vector_store: the index handle, or None
    disk,            \* the index persisted in Config.VECTOR_STORE_DIR
    sys_op,          \* the coordinator operation called last
    sys_calls,       \* the collaborator calls that operation made, with their outcomes
    sys_result,      \* what that operation returned
    rebuild_pc       \* a second caller's rebuild_vector_store: idle, or in progress

llm_vars == <<google_llm, openai_llm, ollama_llm, current_llm>>
gen_vars == <<gen_provider, gen_oracle, gen_result>>
wf_vars == <<agent_store, threshold, state, pc, trace, result, gen_log, gen_calls>>
sm_vars == <<is_initialized, documents_processed, rag_agent, vector_store>>
sys_vars == <<config_valid, sm_vars, disk, sys_op, sys_calls, sys_result, rebuild_pc>>
vars == <<google_llm, openai_llm, ollama_llm, current_llm,
          gen_provider, gen_oracle, gen_result,
          agent_store, threshold, state, pc, trace, result, gen_log, gen_calls,
          config_valid, is_initialized, documents_processed, rag_agent, vector_store,
          disk, sys_op, sys_calls, sys_result, rebuild_pc>>

None == "None"

(***************************************************************************)
(* Texts                                                                   *)
(***************************************************************************)
Keywords == {"confidence", "good", "adequate"}
Words == Keywords \cup {"other", "Good"}

\* the texts a provider returns in the workflow specification
Texts == {{}, {"other"}, {"confidence"}, {"good"}, {"adequate"}}

\* a text field that holds no text (None, or a key the dict lacks)
NoText == {None}

\* what one invocation of a provider does: it raises, or returns response.content
Fail == [ok |-> FALSE, text |-> NoText]
Returns(text) == [ok |-> TRUE, text |-> text]

\* str.lower, on the words of the model
Lower(w) == IF w = "Good" THEN "good" ELSE w

\* kw in text.lower()
ContainsLower(text, kw) == \E w \in text : Lower(w) = kw

(***************************************************************************)
(* LLMManager                                                              *)
(***************************************************************************)
Providers == {"google", "openai", "ollama"}
ProviderOrder == <<"google", "openai", "ollama">>
Selectors == Providers \cup {"auto"}

\* a or b, on handles
Or(a, b) == IF a # None THEN a ELSE b

\* initialize_llms on the fresh fields of __init__. gkey, okey: the API keys are
\* set; graise, oraise, lraise: the provider's constructor raises.
InitializeLLMs(gkey, okey, graise, oraise, lraise) ==
    IF gkey /\ graise
    THEN \* the outer handler: nothing was constructed
         [google_llm |-> None, openai_llm |-> None, ollama_llm |-> None,
          current_llm |-> Or(None, None)]
    ELSE LET g == IF gkey THEN "google" ELSE None IN
         IF okey /\ oraise
         THEN \* the outer handler: Ollama is never reached
              [google_llm |-> g, openai_llm |-> None, ollama_llm |-> None,
               current_llm |-> Or(None, None)]
         ELSE LET o == IF okey THEN "openai" ELSE None
                  l == IF lraise THEN None ELSE "ollama"
              IN  [google_llm |-> g, openai_llm |-> o, ollama_llm |-> l,
                   current_llm |-> Or(g, Or(o, l))]

\* the managers __init__ can leave
Managers ==
    {InitializeLLMs(gk, ok, gr, orr, lr) :
        gk \in BOOLEAN, ok \in BOOLEAN, gr \in BOOLEAN, orr \in BOOLEAN, lr \in BOOLEAN}

\* the handle field of a provider name
Handle(name) ==
    CASE name = "google" -> google_llm
      [] name = "openai" -> openai_llm
      [] name = "ollama" -> ollama_llm

\* mutant: a provider that is not configured resolves to the default
GetLLMMutDefault(provider) ==
    IF provider = "google" /\ google_llm # None THEN google_llm
    ELSE IF provider = "openai" /\ openai_llm # None THEN openai_llm
    ELSE IF provider = "ollama" /\ ollama_llm # None THEN ollama_llm
    ELSE current_llm

GetLLM(provider) ==
    IF provider = "google" /\ google_llm # None THEN google_llm
    ELSE IF provider = "openai" /\ openai_llm # None THEN openai_llm
    ELSE IF provider = "ollama" /\ ollama_llm # None THEN ollama_llm
    ELSE IF provider = "auto" THEN current_llm
    ELSE None

\* how many times name was invoked in calls
RECURSIVE TimesInvoked(_, _)
TimesInvoked(calls, name) ==
    IF calls = <<>> THEN 0
    ELSE (IF Head(calls).name = name THEN 1 ELSE 0) + TimesInvoked(Tail(calls), name)

\* llm.invoke: the outcome of the next invocation of the provider behind handle,
\* Fail (it raised) or Returns(response.content)
Invoke(oracle, handle, calls) == oracle[handle][TimesInvoked(calls, handle) + 1]

SuccessResult(text, tag, calls) ==
    [success |-> TRUE, response |-> text, provider |-> tag, error |-> None,
     calls |-> calls]

FailureResult(err, calls) ==
    [success |-> FALSE, response |-> NoText, provider |-> None, error |-> err,
     calls |-> calls]

\* "fallback-" + name
FallbackTag(name) == "fallback-" \o name

\* mutant: the fallbacks are appended in the reverse order
FallbackProvidersMutOrder(provider) ==
    LET a == IF provider # "ollama" /\ ollama_llm # None THEN <<"ollama">> ELSE <<>>
        b == IF provider # "openai" /\ openai_llm # None THEN <<"openai">> ELSE <<>>
        c == IF provider # "google" /\ google_llm # None THEN <<"google">> ELSE <<>>
    IN  a \o b \o c

\* the three appends that build fallback_providers
FallbackProviders(provider) ==
    LET a == IF provider # "google" /\ google_llm # None THEN <<"google">> ELSE <<>>
        b == IF provider # "openai" /\ openai_llm # None THEN <<"openai">> ELSE <<>>
        c == IF provider # "ollama" /\ ollama_llm # None THEN <<"ollama">> ELSE <<>>
    IN  a \o b \o c

\* mutant: the loop gives up after the first fallback that fails
TryFallbacksMutFirstOnly(fallbacks, oracle, calls) ==
    IF fallbacks = <<>>
    THEN FailureResult("All LLM providers failed", calls)
    ELSE LET name == Head(fallbacks)
             out == Invoke(oracle, Handle(name), calls)
         IN  IF out.ok
             THEN SuccessResult(out.text, FallbackTag(name),
                                Append(calls, [name |-> name, ok |-> TRUE]))
             ELSE FailureResult("All LLM providers failed",
                                Append(calls, [name |-> name, ok |-> FALSE]))

\* the loop over fallback_providers
RECURSIVE TryFallbacks(_, _, _)
TryFallbacks(fallbacks, oracle, calls) ==
    IF fallbacks = <<>>
    THEN FailureResult("All LLM providers failed", calls)
    ELSE LET name == Head(fallbacks)
             out == Invoke(oracle, Handle(name), calls)
         IN  IF out.ok
             THEN SuccessResult(out.text, FallbackTag(name),
                                Append(calls, [name |-> name, ok |-> TRUE]))
             ELSE TryFallbacks(Tail(fallbacks), oracle,
                               Append(calls, [name |-> name, ok |-> FALSE]))

PrimaryTag(provider) == IF provider # "auto" THEN provider ELSE "auto-selected"

\* mutant: the primary's success does not return, the fallbacks are tried too
GenerateResponseMutFallThrough(provider, oracle) ==
    LET llm == GetLLM(provider) IN
    IF llm = None
    THEN FailureResult("No LLM available", <<>>)
    ELSE LET out == Invoke(oracle, llm, <<>>) IN
         TryFallbacks(FallbackProviders(provider), oracle,
                      <<[name |-> llm, ok |-> out.ok]>>)

GenerateResponse(provider, oracle) ==
    LET llm == GetLLM(provider) IN
    IF llm = None
    THEN FailureResult("No LLM available", <<>>)
    ELSE LET out == Invoke(oracle, llm, <<>>) IN
         IF out.ok
         THEN SuccessResult(out.text, PrimaryTag(provider), <<[name |-> llm, ok |-> TRUE]>>)
         ELSE TryFallbacks(FallbackProviders(provider), oracle,
                           <<[name |-> llm, ok |-> FALSE]>>)

(***************************************************************************)
(* The environment of generate_response                                    *)
(***************************************************************************)
\* a provider is invoked at most this many times in one call
MaxInvocations == 2

\* the text a provider returns in SpecLLM: its own name, so that the result shows
\* whose text it carries
ProviderText(p) == {p}

\* SpecLLM: each invocation of each provider fails or returns the provider's text
LLMOracles ==
    {o \in [Providers -> [1..MaxInvocations ->
                             {Fail} \cup {Returns(ProviderText(p)) : p \in Providers}]] :
        \A p \in Providers : \A k \in 1..MaxInvocations :
            o[p][k] \in {Fail, Returns(ProviderText(p))}}

NoResult == [success |-> FALSE, response |-> NoText, provider |-> None, error |-> None,
             calls |-> <<>>]
NoOracle == [p \in Providers |-> [k \in 1..MaxInvocations |-> Fail]]

(***************************************************************************)
(* VectorStore.similarity_search, as the agent's retrieve node calls it    *)
(***************************************************************************)
\* the most documents one search returns in the model
MaxDocs == 2

\* the i-th document of a result: the metadata of the second lacks its source and
\* chunk_id, which read as 'unknown'
Doc(i) ==
    IF i = 2 THEN [source |-> "unknown", chunk_id |-> "unknown"]
    ELSE [source |-> "a.pdf", chunk_id |-> "chunk"]

\* what the Chroma search does: it raises, or returns a list of documents
ChromaOutcomes == {[raises |-> TRUE, docs |-> <<>>]}
                  \cup {[raises |-> FALSE, docs |-> [i \in 1..n |-> Doc(i)]] : n \in 0..MaxDocs}

\* raised: the ValueError of an index that was never created or loaded
SimilaritySearch(handle, chroma) ==
    IF handle = None
    THEN [raised |-> TRUE, docs |-> <<>>]
    ELSE IF chroma.raises
         THEN \* logged, and the search returns []
              [raised |-> FALSE, docs |-> <<>>]
         ELSE [raised |-> FALSE, docs |-> chroma.docs]

(***************************************************************************)
(* The two derived generation modes                                        *)
(***************************************************************************)
GenerateMedicalResponse(oracle) == GenerateResponse("auto", oracle)

EvaluateResponseQuality(oracle) ==
    LET r == GenerateResponse("auto", oracle) IN
    IF r.success
    THEN [success |-> TRUE, evaluation |-> r.response, error |-> None]
    ELSE [success |-> FALSE, evaluation |-> NoText, error |-> r.error]

(***************************************************************************)
(* AgentState and the nodes of the workflow                                *)
(***************************************************************************)
\* Config.CONFIDENCE_THRESHOLD: values the query form's slider can set (0.1 to 0.9)
Thresholds == {10, 50, 70, 90}

MaxImprovements == 3

Queries == {"q"}

\* AgentState(query=query)
NewAgentState(query) ==
    [query |-> query,
     retrieved_documents |-> <<>>,
     context |-> <<>>,
     response |-> {},
     confidence |-> 0,
     sources |-> <<>>,
     evaluation |-> [query_analysis |-> NoText, quality_assessment |-> NoText],
     error |-> "",
     step |-> "start",
     improvement_count |-> 0]

RECURSIVE SourcesOf(_)
SourcesOf(docs) ==
    IF docs = <<>> THEN <<>> ELSE <<Head(docs).source>> \o SourcesOf(Tail(docs))

\* the context: one part per document, its source and chunk heading its text
RECURSIVE ContextOf(_)
ContextOf(docs) ==
    IF docs = <<>> THEN <<>>
    ELSE <<[source |-> Head(docs).source, chunk |-> Head(docs).chunk_id]>>
         \o ContextOf(Tail(docs))

\* mutant of the retrieve node: an empty result is not reported
RetrieveDocumentsMutSilent(s, found) ==
    LET s1 == [s EXCEPT !.step = "retrieve"] IN
    IF found.raised
    THEN [s1 EXCEPT !.error = "Error in document retrieval: Vector store not initialized"]
    ELSE [s1 EXCEPT !.retrieved_documents = found.docs,
                    !.sources = SourcesOf(found.docs),
                    !.context = ContextOf(found.docs)]

RetrieveDocuments(s, found) ==
    LET s1 == [s EXCEPT !.step = "retrieve"] IN
    IF found.raised
    THEN [s1 EXCEPT !.error = "Error in document retrieval: Vector store not initialized"]
    ELSE IF found.docs = <<>>
         THEN [s1 EXCEPT !.error = "No relevant documents found"]
         ELSE [s1 EXCEPT !.retrieved_documents = found.docs,
                         !.sources = SourcesOf(found.docs),
                         !.context = ContextOf(found.docs)]

\* mutant of the analyze node: a failed analysis is reported in error
AnalyzeQueryMutFatal(s, analysis_result) ==
    LET s1 == [s EXCEPT !.step = "analyze"] IN
    IF analysis_result.success
    THEN [s1 EXCEPT !.evaluation.query_analysis = analysis_result.response]
    ELSE [s1 EXCEPT !.error = "Query analysis failed"]

AnalyzeQuery(s, analysis_result) ==
    LET s1 == [s EXCEPT !.step = "analyze"] IN
    IF analysis_result.success
    THEN [s1 EXCEPT !.evaluation.query_analysis = analysis_result.response]
    ELSE s1

\* mutant: the generator is called without context too
GenerateCallsMutAlways(s) == TRUE

\* whether _generate_response calls the generator
GenerateCalls(s) == s.context # <<>>

\* mutant of the generate node: the initial confidence is not assigned
GenerateResponseNodeMutNoConfidence(s, response_result) ==
    LET s1 == [s EXCEPT !.step = "generate"] IN
    IF ~GenerateCalls(s)
    THEN [s1 EXCEPT !.error = "No context available for response generation"]
    ELSE IF response_result.success
         THEN [s1 EXCEPT !.response = response_result.response]
         ELSE [s1 EXCEPT !.error = "Response generation failed: " \o response_result.error]

GenerateResponseNode(s, response_result) ==
    LET s1 == [s EXCEPT !.step = "generate"] IN
    IF ~GenerateCalls(s)
    THEN [s1 EXCEPT !.error = "No context available for response generation"]
    ELSE IF response_result.success
         THEN [s1 EXCEPT !.response = response_result.response, !.confidence = 80]
         ELSE [s1 EXCEPT !.error = "Response generation failed: " \o response_result.error]

\* mutant of the keyword policy: the keywords are tried in the reverse order
ConfidenceOfMutOrder(evaluation) ==
    IF ContainsLower(evaluation, "adequate") THEN 60
    ELSE IF ContainsLower(evaluation, "good") THEN 80
    ELSE IF ContainsLower(evaluation, "confidence") THEN 90
    ELSE 50

\* the keyword policy of _evaluate_response
ConfidenceOf(evaluation) ==
    IF ContainsLower(evaluation, "confidence") THEN 90
    ELSE IF ContainsLower(evaluation, "good") THEN 80
    ELSE IF ContainsLower(evaluation, "adequate") THEN 60
    ELSE 50

\* mutant: the generator is called without a response too
EvaluateCallsMutAlways(s) == TRUE

\* whether _evaluate_response calls the generator
EvaluateCalls(s) == s.response # {}

\* mutant of the evaluate node: the step is recorded after the test of the
\* response
EvaluateResponseMutLateStep(s, evaluation_result) ==
    IF ~EvaluateCalls(s)
    THEN [s EXCEPT !.error = "No response to evaluate"]
    ELSE IF evaluation_result.success
         THEN [s EXCEPT !.step = "evaluate",
                        !.evaluation.quality_assessment = evaluation_result.evaluation,
                        !.confidence = ConfidenceOf(evaluation_result.evaluation)]
         ELSE [s EXCEPT !.step = "evaluate", !.confidence = 50]

\* mutant of the evaluate node: a successful evaluation clears the error
EvaluateResponseMutClears(s, evaluation_result) ==
    LET s1 == [s EXCEPT !.step = "evaluate"] IN
    IF ~EvaluateCalls(s)
    THEN [s1 EXCEPT !.error = "No response to evaluate"]
    ELSE IF evaluation_result.success
         THEN [s1 EXCEPT !.evaluation.quality_assessment = evaluation_result.evaluation,
                         !.confidence = ConfidenceOf(evaluation_result.evaluation),
                         !.error = ""]
         ELSE [s1 EXCEPT !.confidence = 50]

\* mutant of the evaluate node: a failed evaluation leaves the confidence
EvaluateResponseMutKeep(s, evaluation_result) ==
    LET s1 == [s EXCEPT !.step = "evaluate"] IN
    IF ~EvaluateCalls(s)
    THEN [s1 EXCEPT !.error = "No response to evaluate"]
    ELSE IF evaluation_result.success
         THEN [s1 EXCEPT !.evaluation.quality_assessment = evaluation_result.evaluation,
                         !.confidence = ConfidenceOf(evaluation_result.evaluation)]
         ELSE s1

EvaluateResponse(s, evaluation_result) ==
    LET s1 == [s EXCEPT !.step = "evaluate"] IN
    IF ~EvaluateCalls(s)
    THEN [s1 EXCEPT !.error = "No response to evaluate"]
    ELSE IF evaluation_result.success
         THEN [s1 EXCEPT !.evaluation.quality_assessment = evaluation_result.evaluation,
                         !.confidence = ConfidenceOf(evaluation_result.evaluation)]
         ELSE [s1 EXCEPT !.confidence = 50]

\* the exception handler of _evaluate_response: the body raised after the
\* response was found non-empty
EvaluateResponseRaised(s) ==
    [s EXCEPT !.step = "evaluate",
              !.error = "Error in response evaluation",
              !.confidence = 50]

\* mutants of the branch function: the ceiling compared with >, the threshold
\* compared with <=, the increment lost
ShouldImproveMutGt(s, thr) ==
    IF s.improvement_count > MaxImprovements
    THEN [route |-> "end", state |-> s]
    ELSE IF s.confidence < thr
         THEN [route |-> "improve",
               state |-> [s EXCEPT !.improvement_count = s.improvement_count + 1]]
         ELSE [route |-> "end", state |-> s]

ShouldImproveMutLe(s, thr) ==
    IF s.improvement_count >= MaxImprovements
    THEN [route |-> "end", state |-> s]
    ELSE IF s.confidence <= thr
         THEN [route |-> "improve",
               state |-> [s EXCEPT !.improvement_count = s.improvement_count + 1]]
         ELSE [route |-> "end", state |-> s]

ShouldImproveMutNoIncrement(s, thr) ==
    IF s.improvement_count >= MaxImprovements
    THEN [route |-> "end", state |-> s]
    ELSE IF s.confidence < thr
         THEN [route |-> "improve", state |-> s]
         ELSE [route |-> "end", state |-> s]

\* the branch function: the route, and the state it leaves

ShouldImprove(s, thr) ==
    IF s.improvement_count >= MaxImprovements
    THEN [route |-> "end", state |-> s]
    ELSE IF s.confidence < thr
         THEN [route |-> "improve",
               state |-> [s EXCEPT !.improvement_count = s.improvement_count + 1]]
         ELSE [route |-> "end", state |-> s]

Min(a, b) == IF a < b THEN a ELSE b

\* mutant of the improve node: it counts the attempt itself
ImproveResponseMutCounts(s, improvement_result) ==
    LET s1 == [s EXCEPT !.step = "improve",
                        !.improvement_count = s.improvement_count + 1] IN
    IF improvement_result.success
    THEN [s1 EXCEPT !.response = improvement_result.response,
                    !.confidence = Min(95, s.confidence + 10)]
    ELSE s1

\* mutant of the improve node: a successful call replaces the response and
\* leaves the confidence
ImproveResponseMutNoRaise(s, improvement_result) ==
    LET s1 == [s EXCEPT !.step = "improve"] IN
    IF improvement_result.success
    THEN [s1 EXCEPT !.response = improvement_result.response]
    ELSE s1

ImproveResponse(s, improvement_result) ==
    LET s1 == [s EXCEPT !.step = "improve"] IN
    IF improvement_result.success
    THEN [s1 EXCEPT !.response = improvement_result.response,
                    !.confidence = Min(95, s.confidence + 10)]
    ELSE s1

\* mutant of the edges: improve is followed by generate
EdgeAfterMutImprove(node) ==
    CASE node = "retrieve" -> "analyze"
      [] node = "analyze" -> "generate"
      [] node = "generate" -> "evaluate"
      [] node = "evaluate" -> "branch"
      [] node = "improve" -> "generate"

\* the edges of _build_workflow: the node that follows node
EdgeAfter(node) ==
    CASE node = "retrieve" -> "analyze"
      [] node = "analyze" -> "generate"
      [] node = "generate" -> "evaluate"
      [] node = "evaluate" -> "branch"
      [] node = "improve" -> "evaluate"

\* the trace keeps the first MaxTrace nodes of an execution
MaxTrace == 10

Record(t, node) == IF Len(t) < MaxTrace THEN Append(t, node) ELSE t

\* the conditional edge's map from route to node
RouteTarget(route) == IF route = "improve" THEN "improve" ELSE "END"

\* a or None, on texts: the empty string is falsy
OrNone(text) == IF text # {} THEN text ELSE NoText

\* mutant of the result: success follows the confidence
QueryResultMutConfidence(query, final_state) ==
    [success |-> final_state.confidence >= 70,
     query |-> query,
     response |-> OrNone(final_state.response),
     confidence |-> final_state.confidence,
     sources |-> final_state.sources,
     evaluation |-> final_state.evaluation,
     workflow_steps |-> final_state.step,
     error |-> final_state.error]

\* the result process_query builds from the final state
QueryResult(query, final_state) ==
    [success |-> TRUE,
     query |-> query,
     response |-> OrNone(final_state.response),
     confidence |-> final_state.confidence,
     sources |-> final_state.sources,
     evaluation |-> final_state.evaluation,
     workflow_steps |-> final_state.step,
     error |-> final_state.error]

\* mutant of the failure envelope: the fault is passed over as a success
FaultResultMutSuccess(query, e) ==
    [success |-> TRUE, query |-> query, response |-> NoText, confidence |-> 0,
     sources |-> <<>>,
     evaluation |-> [query_analysis |-> NoText, quality_assessment |-> NoText],
     workflow_steps |-> "N/A", error |-> None]

\* the result process_query's handler builds from an exception e
FaultResult(query, e) ==
    [success |-> FALSE, query |-> query, response |-> NoText, confidence |-> 0,
     sources |-> <<>>,
     evaluation |-> [query_analysis |-> NoText, quality_assessment |-> NoText],
     workflow_steps |-> "N/A", error |-> e]

\* str(e) of the exceptions that escape workflow.invoke: the engine's own errors
Faults == {"Recursion limit reached", "Invalid state update"}

NoQueryResult ==
    [success |-> FALSE, query |-> None, response |-> NoText, confidence |-> 0,
     sources |-> <<>>,
     evaluation |-> [query_analysis |-> NoText, quality_assessment |-> NoText],
     workflow_steps |-> None, error |-> None]

\* the outcomes of the generation calls an execution made: a node that calls the
\* generator adds how the call ended
Logged(log, called, r) ==
    IF called THEN log \cup {IF r.success THEN "ok" ELSE "fail"} ELSE log

\* the most generation calls one execution issues: one by analyze, one by
\* generate, one by each evaluate and each improve
MaxCalls == 9

\* the number of generation calls, a node that calls the generator adding one
Counted(n, called) == IF called /\ n < MaxCalls THEN n + 1 ELSE n

(***************************************************************************)
(* The environment of the workflow                                         *)
(***************************************************************************)
\* every invocation of every provider does x
UniformOracle(x) == [p \in Providers |-> [k \in 1..MaxInvocations |-> x]]

\* google fails, the others do x
GoogleDownOracle(x) ==
    [p \in Providers |-> [k \in 1..MaxInvocations |-> IF p = "google" THEN Fail ELSE x]]

WorkflowOracles ==
    {UniformOracle(Fail)}
    \cup {UniformOracle(Returns(t)) : t \in Texts}
    \cup {GoogleDownOracle(Returns(t)) : t \in Texts}

(***************************************************************************)
(* SystemManager and the collaborators it calls                            *)
(***************************************************************************)
\* one collaborator call of a coordinator operation, and how it ended
Call(name, out) == [name |-> name, out |-> out]

\* no index is persisted: chroma.sqlite3 is missing
NoDisk == [exists |-> FALSE, chunks |-> <<>>]

\* the chunks of a corpus of n chunks
Chunks(n) == [i \in 1..n |-> Doc(i)]

\* process_pdf_documents: documents, an empty list, or an exception
ExtractOutcomes == {"ok", "empty", "raise"}

\* chunk_documents: an exception, or a list of chunks that may be empty
ChunkOutcomes ==
    {[raises |-> TRUE, chunks |-> <<>>]}
    \cup {[raises |-> FALSE, chunks |-> Chunks(n)] : n \in 0..MaxDocs}

\* create_vector_store: done, or an exception of Chroma.from_documents, or one of
\* persist() after the handle was assigned
BuildOutcomes == {"ok", "from_documents raises", "persist raises"}

\* what the collaborators do during one coordinator operation; a collaborator
\* that is not reached (chunking after a failed extraction, building after a
\* failed chunking) is given one outcome
Environments ==
    {env \in [load_ok : BOOLEAN, extract : ExtractOutcomes, chunk : ChunkOutcomes,
              build : BuildOutcomes, delete_ok : BOOLEAN, agent_ok : BOOLEAN] :
        /\ env.extract # "ok" => env.chunk = [raises |-> TRUE, chunks |-> <<>>]
        /\ (env.chunk.raises \/ env.chunk.chunks = <<>>) => env.build = "ok"}

\* initialize_system deletes no collection, rebuild_vector_store loads no index
InitializeEnvironments == {env \in Environments : env.delete_ok}

RebuildEnvironments == {env \in Environments : env.load_ok}

\* load_existing_vector_store: the handle it leaves and what it returns
LoadExistingVectorStore(store, dsk, load_ok) ==
    IF ~dsk.exists
    THEN [store |-> store, loaded |-> FALSE]
    ELSE IF load_ok
         THEN [store |-> "index", loaded |-> TRUE]
         ELSE [store |-> None, loaded |-> FALSE]

\* create_vector_store(chunks)
CreateVectorStore(store, dsk, chunks, build) ==
    CASE build = "ok" ->
            [store |-> "index", disk |-> [exists |-> TRUE, chunks |-> chunks],
             raised |-> FALSE]
      [] build = "from_documents raises" ->
            [store |-> store, disk |-> dsk, raised |-> TRUE]
      [] build = "persist raises" ->
            [store |-> "index", disk |-> [exists |-> TRUE, chunks |-> chunks],
             raised |-> TRUE]

\* delete_collection on a handle that is not None: exceptions are logged
DeleteCollection(dsk, delete_ok) ==
    IF delete_ok THEN [dsk EXCEPT !.chunks = <<>>] ELSE dsk

\* mutant of _process_documents: an empty list of chunks is indexed all the same
ProcessDocumentsMutEmpty(store, dsk, env) ==
    IF env.extract # "ok"
    THEN [store |-> store, disk |-> dsk, ok |-> FALSE,
          calls |-> <<Call("extract", env.extract)>>]
    ELSE IF env.chunk.raises
         THEN [store |-> store, disk |-> dsk, ok |-> FALSE,
               calls |-> <<Call("extract", "ok"), Call("chunk", "raise")>>]
         ELSE LET b == CreateVectorStore(store, dsk, env.chunk.chunks, env.build) IN
              [store |-> b.store, disk |-> b.disk, ok |-> ~b.raised,
               calls |-> <<Call("extract", "ok"),
                           Call("chunk", IF env.chunk.chunks = <<>> THEN "empty" ELSE "ok"),
                           Call("build", IF b.raised THEN "raise" ELSE "ok")>>]

\* _process_documents: the handle and the persisted index it leaves, the calls it
\* made and what it returns
ProcessDocuments(store, dsk, env) ==
    IF env.extract # "ok"
    THEN [store |-> store, disk |-> dsk, ok |-> FALSE,
          calls |-> <<Call("extract", env.extract)>>]
    ELSE IF env.chunk.raises
         THEN [store |-> store, disk |-> dsk, ok |-> FALSE,
               calls |-> <<Call("extract", "ok"), Call("chunk", "raise")>>]
         ELSE IF env.chunk.chunks = <<>>
              THEN [store |-> store, disk |-> dsk, ok |-> FALSE,
                    calls |-> <<Call("extract", "ok"), Call("chunk", "empty")>>]
              ELSE LET b == CreateVectorStore(store, dsk, env.chunk.chunks, env.build) IN
                   [store |-> b.store, disk |-> b.disk, ok |-> ~b.raised,
                    calls |-> <<Call("extract", "ok"), Call("chunk", "ok"),
                                Call("build", IF b.raised THEN "raise" ELSE "ok")>>]

\* the results of the coordinator's operations
NoSysResult == [success |-> FALSE, error |-> None, message |-> None]

InitSuccess ==
    [success |-> TRUE, error |-> None, message |-> "System initialized successfully"]

InitFailure(e) ==
    [success |-> FALSE, error |-> e, message |-> "System initialization failed"]

RebuildSuccess ==
    [success |-> TRUE, error |-> None, message |-> "Vector store rebuilt successfully"]

RebuildFailure(e) == [success |-> FALSE, error |-> e, message |-> None]

NotInitialized ==
    [success |-> FALSE, error |-> "System not initialized",
     message |-> "Please initialize the system first"]

QueryFailure(e) ==
    [success |-> FALSE, error |-> e, message |-> "Query processing failed"]

\* SystemManager.__init__
NewSystemManager ==
    [is_initialized |-> FALSE, documents_processed |-> FALSE, rag_agent |-> None,
     vector_store |-> None]

\* Config.validate_config(): it passes, or raises a configuration error
ValidateConfig(valid) == IF valid THEN "ok" ELSE "raise"

\* mutant of initialize_system: the persisted index is never loaded
InitializeSystemMutNoLoad(sm, dsk, valid, force, env) ==
    IF ValidateConfig(valid) = "raise"
    THEN [sm |-> sm, disk |-> dsk, calls |-> <<Call("validate", "raise")>>,
          result |-> InitFailure("Configuration error")]
    ELSE LET p == ProcessDocuments(sm.vector_store, dsk, env)
             calls == <<Call("validate", "ok")>> \o p.calls
             sm1 == [sm EXCEPT !.vector_store = p.store]
             sm2 == [sm1 EXCEPT !.documents_processed = TRUE]
         IN  IF ~p.ok
             THEN [sm |-> sm1, disk |-> p.disk, calls |-> calls,
                   result |-> InitFailure("Document processing failed")]
             ELSE IF ~env.agent_ok
                  THEN [sm |-> sm2, disk |-> p.disk,
                        calls |-> calls \o <<Call("agent", "raise")>>,
                        result |-> InitFailure("agent construction failed")]
                  ELSE [sm |-> [sm2 EXCEPT !.rag_agent = "agent", !.is_initialized = TRUE],
                        disk |-> p.disk,
                        calls |-> calls \o <<Call("agent", "ok")>>,
                        result |-> InitSuccess]

\* mutant of initialize_system: the configuration is validated after the index
\* was loaded or built
InitializeSystemMutValidateLast(sm, dsk, valid, force, env) ==
    LET l == IF force
             THEN [store |-> sm.vector_store, loaded |-> FALSE]
             ELSE LoadExistingVectorStore(sm.vector_store, dsk, env.load_ok)
        load_calls == IF force THEN <<>>
                      ELSE <<Call("load", IF l.loaded THEN "ok" ELSE "false")>>
        p == IF l.loaded
             THEN [store |-> l.store, disk |-> dsk, ok |-> TRUE, calls |-> <<>>]
             ELSE ProcessDocuments(l.store, dsk, env)
        calls == load_calls \o p.calls
        sm1 == [sm EXCEPT !.vector_store = p.store]
        sm2 == [sm1 EXCEPT !.documents_processed = TRUE]
    IN  IF ~p.ok
        THEN [sm |-> sm1, disk |-> p.disk, calls |-> calls,
              result |-> InitFailure("Document processing failed")]
        ELSE IF ValidateConfig(valid) = "raise"
             THEN [sm |-> sm2, disk |-> p.disk,
                   calls |-> calls \o <<Call("validate", "raise")>>,
                   result |-> InitFailure("Configuration error")]
             ELSE IF ~env.agent_ok
                  THEN [sm |-> sm2, disk |-> p.disk,
                        calls |-> calls \o <<Call("validate", "ok"), Call("agent", "raise")>>,
                        result |-> InitFailure("agent construction failed")]
                  ELSE [sm |-> [sm2 EXCEPT !.rag_agent = "agent", !.is_initialized = TRUE],
                        disk |-> p.disk,
                        calls |-> calls \o <<Call("validate", "ok"), Call("agent", "ok")>>,
                        result |-> InitSuccess]

\* mutant of initialize_system: is_initialized is set before the agent is built
InitializeSystemMutReadyFirst(sm, dsk, valid, force, env) ==
    IF ValidateConfig(valid) = "raise"
    THEN [sm |-> sm, disk |-> dsk, calls |-> <<Call("validate", "raise")>>,
          result |-> InitFailure("Configuration error")]
    ELSE LET l == IF force
                  THEN [store |-> sm.vector_store, loaded |-> FALSE]
                  ELSE LoadExistingVectorStore(sm.vector_store, dsk, env.load_ok)
             load_calls == IF force THEN <<>>
                           ELSE <<Call("load", IF l.loaded THEN "ok" ELSE "false")>>
             p == IF l.loaded
                  THEN [store |-> l.store, disk |-> dsk, ok |-> TRUE, calls |-> <<>>]
                  ELSE ProcessDocuments(l.store, dsk, env)
             calls == <<Call("validate", "ok")>> \o load_calls \o p.calls
             sm1 == [sm EXCEPT !.vector_store = p.store]
             sm2 == [sm1 EXCEPT !.documents_processed = TRUE, !.is_initialized = TRUE]
         IN  IF ~p.ok
             THEN [sm |-> sm1, disk |-> p.disk, calls |-> calls,
                   result |-> InitFailure("Document processing failed")]
             ELSE IF ~env.agent_ok
                  THEN [sm |-> sm2, disk |-> p.disk,
                        calls |-> calls \o <<Call("agent", "raise")>>,
                        result |-> InitFailure("agent construction failed")]
                  ELSE [sm |-> [sm2 EXCEPT !.rag_agent = "agent", !.is_initialized = TRUE],
                        disk |-> p.disk,
                        calls |-> calls \o <<Call("agent", "ok")>>,
                        result |-> InitSuccess]

\* initialize_system(force_rebuild): the coordinator and the persisted index it
\* leaves, the calls it made and what it returns
InitializeSystem(sm, dsk, valid, force, env) ==
    IF ValidateConfig(valid) = "raise"
    THEN [sm |-> sm, disk |-> dsk, calls |-> <<Call("validate", "raise")>>,
          result |-> InitFailure("Configuration error")]
    ELSE LET l == IF force
                  THEN [store |-> sm.vector_store, loaded |-> FALSE]
                  ELSE LoadExistingVectorStore(sm.vector_store, dsk, env.load_ok)
             load_calls == IF force THEN <<>>
                           ELSE <<Call("load", IF l.loaded THEN "ok" ELSE "false")>>
             p == IF l.loaded
                  THEN [store |-> l.store, disk |-> dsk, ok |-> TRUE, calls |-> <<>>]
                  ELSE ProcessDocuments(l.store, dsk, env)
             calls == <<Call("validate", "ok")>> \o load_calls \o p.calls
             sm1 == [sm EXCEPT !.vector_store = p.store]
             sm2 == [sm1 EXCEPT !.documents_processed = TRUE]
         IN  IF ~p.ok
             THEN [sm |-> sm1, disk |-> p.disk, calls |-> calls,
                   result |-> InitFailure("Document processing failed")]
             ELSE IF ~env.agent_ok
                  THEN [sm |-> sm2, disk |-> p.disk,
                        calls |-> calls \o <<Call("agent", "raise")>>,
                        result |-> InitFailure("agent construction failed")]
                  ELSE [sm |-> [sm2 EXCEPT !.rag_agent = "agent", !.is_initialized = TRUE],
                        disk |-> p.disk,
                        calls |-> calls \o <<Call("agent", "ok")>>,
                        result |-> InitSuccess]

\* rebuild_vector_store() from the call of _process_documents on, del_calls
\* being the calls made before it
RebuildAfterDelete(sm, dsk, del_calls, env) ==
    LET p == ProcessDocuments(sm.vector_store, dsk, env)
        calls == del_calls \o p.calls
        sm1 == [sm EXCEPT !.vector_store = p.store]
    IN  IF ~p.ok
        THEN [sm |-> sm1, disk |-> p.disk, calls |-> calls,
              result |-> RebuildFailure("Document processing failed during rebuild")]
        ELSE IF ~env.agent_ok
             THEN [sm |-> sm1, disk |-> p.disk,
                   calls |-> calls \o <<Call("agent", "raise")>>,
                   result |-> RebuildFailure("agent construction failed")]
             ELSE [sm |-> [sm1 EXCEPT !.rag_agent = "agent"], disk |-> p.disk,
                   calls |-> calls \o <<Call("agent", "ok")>>,
                   result |-> RebuildSuccess]

\* rebuild_vector_store()
RebuildVectorStore(sm, dsk, env) ==
    LET has_index == sm.vector_store # None
        del_calls == IF has_index
                     THEN <<Call("delete", IF env.delete_ok THEN "ok" ELSE "raise")>>
                     ELSE <<>>
        d1 == IF has_index THEN DeleteCollection(dsk, env.delete_ok) ELSE dsk
    IN  RebuildAfterDelete(sm, d1, del_calls, env)

\* mutant of SystemManager.process_query: the readiness test is lost
SystemProcessQueryMutNoGuard(ready, agent) ==
    IF agent = None
    THEN [route |-> "fault",
          result |-> QueryFailure("'NoneType' object has no attribute 'process_query'")]
    ELSE [route |-> "workflow", result |-> NoSysResult]

\* SystemManager.process_query: whether the query is handed to the agent, and the
\* result when it is not
SystemProcessQuery(ready, agent) ==
    IF ~ready
    THEN [route |-> "reject", result |-> NotInitialized]
    ELSE IF agent = None
         THEN [route |-> "fault",
               result |-> QueryFailure("'NoneType' object has no attribute 'process_query'")]
         ELSE [route |-> "workflow", result |-> NoSysResult]

\* no coordinator operation was called yet
NoOp == [name |-> None, force |-> FALSE]

\* the specifications of the agent and of the generation layer have no coordinator
NoCoordinator ==
    /\ config_valid = TRUE
    /\ is_initialized = FALSE
    /\ documents_processed = FALSE
    /\ rag_agent = None
    /\ vector_store = None
    /\ disk = NoDisk
    /\ sys_op = NoOp
    /\ sys_calls = <<>>
    /\ sys_result = NoSysResult
    /\ rebuild_pc = "idle"

\* the oracles of the analyze node: no later stage reads the analysis, so one
\* text stands for all
AnalysisOracles ==
    {UniformOracle(Fail), UniformOracle(Returns({"other"})),
     GoogleDownOracle(Returns({"other"}))}

(***************************************************************************)
(* Spec: process_query on one RAGAgent                                     *)
(***************************************************************************)
WorkflowIdle ==
    /\ agent_store = None
    /\ threshold = 70
    /\ state = NewAgentState(None)
    /\ pc = "idle"
    /\ trace = <<>>
    /\ result = NoQueryResult
    /\ gen_log = {}
    /\ gen_calls = 0

\* the managers of the workflow specification: the three providers configured,
\* or none (no API key set and the Ollama constructor raising)
WorkflowManagers ==
    {InitializeLLMs(key, key, FALSE, FALSE, ~key) : key \in BOOLEAN}

Init ==
    /\ \E m \in WorkflowManagers :
        /\ google_llm = m.google_llm
        /\ openai_llm = m.openai_llm
        /\ ollama_llm = m.ollama_llm
        /\ current_llm = m.current_llm
    /\ gen_provider = None
    /\ gen_oracle = NoOracle
    /\ gen_result = NoResult
    /\ agent_store \in {None, "index"}
    /\ threshold \in Thresholds
    /\ state = NewAgentState(None)
    /\ pc = "idle"
    /\ trace = <<>>
    /\ result = NoQueryResult
    /\ gen_log = {}
    /\ gen_calls = 0
    /\ NoCoordinator

\* mutant of the submission: the workflow is invoked on the state the previous
\* query left
ProcessQueryMutReuse ==
    /\ pc = "idle"
    /\ \E t \in Thresholds : threshold' = t
    /\ \E query \in Queries : state' = [state EXCEPT !.query = query]
    /\ pc' = "retrieve"
    /\ trace' = <<>>
    /\ result' = NoQueryResult
    /\ gen_log' = {}
    /\ gen_calls' = 0
    /\ UNCHANGED <<llm_vars, gen_vars, agent_store, sys_vars>>

\* a query is submitted: the query form sets the threshold, process_query builds
\* the initial state and invokes the workflow
ProcessQuery ==
    /\ pc = "idle"
    /\ \E t \in Thresholds : threshold' = t
    /\ \E query \in Queries : state' = NewAgentState(query)
    /\ pc' = "retrieve"
    /\ trace' = <<>>
    /\ result' = NoQueryResult
    /\ gen_log' = {}
    /\ gen_calls' = 0
    /\ UNCHANGED <<llm_vars, gen_vars, agent_store, sys_vars>>

Retrieve ==
    /\ pc = "retrieve"
    /\ \E chroma \in ChromaOutcomes :
        state' = RetrieveDocuments(state, SimilaritySearch(agent_store, chroma))
    /\ pc' = EdgeAfter("retrieve")
    /\ trace' = Record(trace, "retrieve")
    /\ UNCHANGED <<llm_vars, gen_vars, agent_store, threshold, result, gen_log, gen_calls,
                   sys_vars>>

Analyze ==
    /\ pc = "analyze"
    /\ \E oracle \in AnalysisOracles :
        LET r == GenerateResponse("auto", oracle) IN
            /\ state' = AnalyzeQuery(state, r)
            /\ gen_log' = Logged(gen_log, TRUE, r)
            /\ gen_calls' = Counted(gen_calls, TRUE)
    /\ pc' = EdgeAfter("analyze")
    /\ trace' = Record(trace, "analyze")
    /\ UNCHANGED <<llm_vars, gen_vars, agent_store, threshold, result, sys_vars>>

Generate ==
    /\ pc = "generate"
    /\ \E oracle \in WorkflowOracles :
        LET r == GenerateMedicalResponse(oracle) IN
            /\ state' = GenerateResponseNode(state, r)
            /\ gen_log' = Logged(gen_log, GenerateCalls(state), r)
            /\ gen_calls' = Counted(gen_calls, GenerateCalls(state))
    /\ pc' = EdgeAfter("generate")
    /\ trace' = Record(trace, "generate")
    /\ UNCHANGED <<llm_vars, gen_vars, agent_store, threshold, result, sys_vars>>

Evaluate ==
    /\ pc = "evaluate"
    /\ \E oracle \in WorkflowOracles :
        LET r == EvaluateResponseQuality(oracle) IN
            /\ state' = EvaluateResponse(state, r)
            /\ gen_log' = Logged(gen_log, EvaluateCalls(state), r)
            /\ gen_calls' = Counted(gen_calls, EvaluateCalls(state))
    /\ pc' = EdgeAfter("evaluate")
    /\ trace' = Record(trace, "evaluate")
    /\ UNCHANGED <<llm_vars, gen_vars, agent_store, threshold, result, sys_vars>>

\* the conditional edge after evaluate
Branch ==
    /\ pc = "branch"
    /\ LET d == ShouldImprove(state, threshold) IN
        /\ state' = d.state
        /\ pc' = RouteTarget(d.route)
    /\ UNCHANGED <<llm_vars, gen_vars, agent_store, threshold, trace, result, gen_log,
                   gen_calls, sys_vars>>

Improve ==
    /\ pc = "improve"
    /\ \E oracle \in WorkflowOracles :
        LET r == GenerateResponse("auto", oracle) IN
            /\ state' = ImproveResponse(state, r)
            /\ gen_log' = Logged(gen_log, TRUE, r)
            /\ gen_calls' = Counted(gen_calls, TRUE)
    /\ pc' = EdgeAfter("improve")
    /\ trace' = Record(trace, "improve")
    /\ UNCHANGED <<llm_vars, gen_vars, agent_store, threshold, result, sys_vars>>

\* the workflow returned: process_query builds its result and returns
ReturnResult ==
    /\ pc = "END"
    /\ result' = QueryResult(state.query, state)
    /\ pc' = "idle"
    /\ UNCHANGED <<llm_vars, gen_vars, agent_store, threshold, state, trace, gen_log,
                   gen_calls, sys_vars>>

\* workflow.invoke raises while the graph runs: process_query's handler returns
\* the failure envelope, and the state of the run is lost
Fault ==
    /\ pc \in {"retrieve", "analyze", "generate", "evaluate", "branch", "improve"}
    /\ \E e \in Faults : result' = FaultResult(state.query, e)
    /\ pc' = "idle"
    /\ state' = NewAgentState(None)
    /\ trace' = <<>>
    /\ gen_log' = {}
    /\ gen_calls' = 0
    /\ UNCHANGED <<llm_vars, gen_vars, agent_store, threshold, sys_vars>>

Next ==
    \/ ProcessQuery
    \/ Retrieve
    \/ Analyze
    \/ Generate
    \/ Evaluate
    \/ Branch
    \/ Improve
    \/ ReturnResult

Spec == Init /\ [][Next]_vars

\* the workflow's steps are taken as long as one is enabled: the engine runs the
\* graph to its end within the one call of process_query
WorkflowStep ==
    Retrieve \/ Analyze \/ Generate \/ Evaluate \/ Branch \/ Improve \/ ReturnResult

SpecLive == Spec /\ WF_vars(WorkflowStep)

\* Spec with the faults of the engine
NextFault == Next \/ Fault

SpecFault == Init /\ [][NextFault]_vars

(***************************************************************************)
(* SpecSys: one SystemManager serving initialize_system,                   *)
(* rebuild_vector_store and process_query, one call at a time              *)
(***************************************************************************)
\* the coordinator's fields, as one record
SM ==
    [is_initialized |-> is_initialized, documents_processed |-> documents_processed,
     rag_agent |-> rag_agent, vector_store |-> vector_store]

\* whether the sequence of calls holds a call of name, and one that ended in out
Made(calls, name) == \E i \in 1..Len(calls) : calls[i].name = name

Ended(calls, name, out) == \E i \in 1..Len(calls) : calls[i] = Call(name, out)

\* the persisted indexes SpecSys starts from: none, or one of a single chunk
InitialDisks == {NoDisk, [exists |-> TRUE, chunks |-> Chunks(1)]}

InitSys ==
    /\ \E m \in WorkflowManagers :
        /\ google_llm = m.google_llm
        /\ openai_llm = m.openai_llm
        /\ ollama_llm = m.ollama_llm
        /\ current_llm = m.current_llm
    /\ gen_provider = None
    /\ gen_oracle = NoOracle
    /\ gen_result = NoResult
    /\ WorkflowIdle
    /\ config_valid \in BOOLEAN
    /\ is_initialized = NewSystemManager.is_initialized
    /\ documents_processed = NewSystemManager.documents_processed
    /\ rag_agent = NewSystemManager.rag_agent
    /\ vector_store = NewSystemManager.vector_store
    /\ disk \in InitialDisks
    /\ sys_op = NoOp
    /\ sys_calls = <<>>
    /\ sys_result = NoSysResult
    /\ rebuild_pc = "idle"

\* a coordinator operation begins: nothing is left of the previous query
ForgetQuery ==
    /\ state' = NewAgentState(None)
    /\ trace' = <<>>
    /\ result' = NoQueryResult
    /\ gen_log' = {}
    /\ gen_calls' = 0

\* the coordinator and the persisted index an operation leaves; RAGAgent() builds
\* a VectorStore of its own, whose index handle is None
Leaves(r) ==
    /\ is_initialized' = r.sm.is_initialized
    /\ documents_processed' = r.sm.documents_processed
    /\ rag_agent' = r.sm.rag_agent
    /\ vector_store' = r.sm.vector_store
    /\ disk' = r.disk
    /\ sys_calls' = r.calls
    /\ sys_result' = r.result
    /\ agent_store' = IF Ended(r.calls, "agent", "ok") THEN None ELSE agent_store

SysInitializeSystem ==
    /\ pc = "idle"
    /\ \E force \in BOOLEAN, env \in InitializeEnvironments :
        /\ Leaves(InitializeSystem(SM, disk, config_valid, force, env))
        /\ sys_op' = [name |-> "initialize_system", force |-> force]
    /\ ForgetQuery
    /\ UNCHANGED <<llm_vars, gen_vars, threshold, pc, config_valid, rebuild_pc>>

SysRebuildVectorStore ==
    /\ pc = "idle"
    /\ \E env \in RebuildEnvironments : Leaves(RebuildVectorStore(SM, disk, env))
    /\ sys_op' = [name |-> "rebuild_vector_store", force |-> FALSE]
    /\ ForgetQuery
    /\ UNCHANGED <<llm_vars, gen_vars, threshold, pc, config_valid, rebuild_pc>>

SysProcessQuery ==
    /\ pc = "idle"
    /\ sys_op' = [name |-> "process_query", force |-> FALSE]
    /\ LET r == SystemProcessQuery(is_initialized, rag_agent) IN
        /\ sys_result' = r.result
        /\ IF r.route = "workflow"
           THEN /\ sys_calls' = <<Call("workflow", "ok")>>
                /\ \E query \in Queries : state' = NewAgentState(query)
                /\ pc' = "retrieve"
                /\ trace' = <<>>
                /\ result' = NoQueryResult
                /\ gen_log' = {}
                /\ gen_calls' = 0
           ELSE /\ sys_calls' = <<>>
                /\ ForgetQuery
                /\ pc' = "idle"
    /\ UNCHANGED <<llm_vars, gen_vars, agent_store, threshold, config_valid, sm_vars, disk,
                   rebuild_pc>>

NextSys ==
    \/ SysInitializeSystem
    \/ SysRebuildVectorStore
    \/ SysProcessQuery
    \/ Retrieve
    \/ Analyze
    \/ Generate
    \/ Evaluate
    \/ Branch
    \/ Improve
    \/ ReturnResult

SpecSys == InitSys /\ [][NextSys]_vars

(***************************************************************************)
(* SpecEval: the evaluate node alone, on every assessment the words of the *)
(* model make and every confidence it may find                             *)
(***************************************************************************)
\* the assessments: every combination of the words
Assessments == SUBSET Words

\* the confidences evaluate may find beside a response: those generate and
\* evaluate assign, and improved ones
PriorConfidences == {50, 60, 70, 80, 90, 95}

InitEval ==
    /\ \E m \in WorkflowManagers :
        /\ google_llm = m.google_llm
        /\ openai_llm = m.openai_llm
        /\ ollama_llm = m.ollama_llm
        /\ current_llm = m.current_llm
    /\ gen_provider = None
    /\ gen_oracle = NoOracle
    /\ gen_result = NoResult
    /\ agent_store = "index"
    /\ threshold \in Thresholds
    /\ \E c \in PriorConfidences, text \in Texts \ {{}} :
        state = [NewAgentState("q") EXCEPT
                    !.retrieved_documents = <<Doc(1)>>,
                    !.sources = SourcesOf(<<Doc(1)>>),
                    !.context = ContextOf(<<Doc(1)>>),
                    !.response = text,
                    !.confidence = c,
                    !.step = "generate"]
    /\ pc = "evaluate"
    /\ trace = <<"retrieve", "analyze", "generate">>
    /\ result = NoQueryResult
    /\ gen_log = {}
    /\ gen_calls = 0
    /\ NoCoordinator

\* the evaluate node, its quality-evaluation call failing or returning an
\* assessment
EvaluateAssessment ==
    /\ pc = "evaluate"
    /\ \E oracle \in {UniformOracle(Fail)}
                      \cup {UniformOracle(Returns(a)) : a \in Assessments} :
        LET r == EvaluateResponseQuality(oracle) IN
            /\ state' = EvaluateResponse(state, r)
            /\ gen_log' = Logged(gen_log, EvaluateCalls(state), r)
            /\ gen_calls' = Counted(gen_calls, EvaluateCalls(state))
    /\ pc' = EdgeAfter("evaluate")
    /\ trace' = Record(trace, "evaluate")
    /\ UNCHANGED <<llm_vars, gen_vars, agent_store, threshold, result, sys_vars>>

\* the evaluate node, its body raising: the handler runs
EvaluateRaises ==
    /\ pc = "evaluate"
    /\ EvaluateCalls(state)
    /\ state' = EvaluateResponseRaised(state)
    /\ pc' = EdgeAfter("evaluate")
    /\ trace' = Record(trace, "evaluate")
    /\ UNCHANGED <<llm_vars, gen_vars, agent_store, threshold, result, gen_log,
                   gen_calls, sys_vars>>

NextEval ==
    \/ EvaluateAssessment
    \/ EvaluateRaises

SpecEval == InitEval /\ [][NextEval]_vars

(***************************************************************************)
(* SpecConc: SpecSys with a second caller on the same SystemManager, whose *)
(* rebuild_vector_store runs in two steps next to the first caller's query *)
(***************************************************************************)
\* the second caller enters rebuild_vector_store and deletes the collection;
\* nothing in SystemManager makes it wait for a query in flight
ConcRebuildDelete ==
    /\ rebuild_pc = "idle"
    /\ \E delete_ok \in BOOLEAN :
        disk' = IF vector_store # None THEN DeleteCollection(disk, delete_ok) ELSE disk
    /\ rebuild_pc' = "rebuilding"
    /\ UNCHANGED <<llm_vars, gen_vars, wf_vars, config_valid, sm_vars, sys_op, sys_calls,
                   sys_result>>

\* the second caller's _process_documents and RAGAgent(), and its return; a query
\* in flight goes on in the agent it was handed to
ConcRebuildProcess ==
    /\ rebuild_pc = "rebuilding"
    /\ \E env \in RebuildEnvironments :
        LET r == RebuildAfterDelete(SM, disk, <<>>, env) IN
            /\ is_initialized' = r.sm.is_initialized
            /\ documents_processed' = r.sm.documents_processed
            /\ rag_agent' = r.sm.rag_agent
            /\ vector_store' = r.sm.vector_store
            /\ disk' = r.disk
    /\ rebuild_pc' = "idle"
    /\ UNCHANGED <<llm_vars, gen_vars, wf_vars, config_valid, sys_op, sys_calls, sys_result>>

NextConc ==
    \/ SysInitializeSystem
    \/ SysProcessQuery
    \/ Retrieve
    \/ Analyze
    \/ Generate
    \/ Evaluate
    \/ Branch
    \/ Improve
    \/ ReturnResult
    \/ ConcRebuildDelete
    \/ ConcRebuildProcess

SpecConc == InitSys /\ [][NextConc]_vars

(***************************************************************************)
(* Claims on the workflow                                                  *)
(***************************************************************************)
Running == pc # "idle"

\* C1: in every reachable state of a workflow execution, whatever the retrieval
\* and generation outcomes and the threshold, improvement_count <= 3.
C1_ImprovementCeiling == state.improvement_count <= 3

\* C1 witness: the workflow ended with the three attempts used and the
\* confidence still below the threshold.
C1_Witness ==
    /\ pc = "END"
    /\ state.improvement_count = 3
    /\ state.confidence < threshold

\* C2: every workflow execution that process_query starts eventually reaches the
\* terminal state and returns a result: the improve/evaluate cycle does not
\* repeat forever.
C2_Terminates ==
    (pc = "retrieve") ~> (pc = "idle" /\ result.query # None)

\* C2 witness: a result was returned after the cycle ran three times.
C2_Witness ==
    /\ pc = "idle"
    /\ result.query # None
    /\ state.improvement_count = 3

\* the order the graph allows: retrieve, analyze, generate, evaluate, then
\* improve and evaluate in turn
ExpectedNode(i) ==
    CASE i = 1 -> "retrieve"
      [] i = 2 -> "analyze"
      [] i = 3 -> "generate"
      [] i = 4 -> "evaluate"
      [] OTHER -> IF i % 2 = 1 THEN "improve" ELSE "evaluate"

\* C3: the nodes run in the order retrieve, analyze, generate, evaluate, then zero
\* or more times (improve, evaluate), then terminal: the first node is retrieve,
\* every improve is followed at once by evaluate, and terminal is entered only
\* directly after an evaluate.
C3_StageOrder ==
    /\ \A i \in 1..Len(trace) : trace[i] = ExpectedNode(i)
    /\ pc = "retrieve" => trace = <<>>
    /\ pc \in {"analyze", "generate", "evaluate", "improve"} =>
           pc = ExpectedNode(Len(trace) + 1)
    /\ pc \in {"branch", "END"} =>
           /\ Len(trace) >= 4
           /\ trace[Len(trace)] = "evaluate"

\* C3 witness: terminal entered after two repetitions of improve, evaluate.
C3_Witness ==
    /\ pc = "END"
    /\ trace = <<"retrieve", "analyze", "generate", "evaluate",
                 "improve", "evaluate", "improve", "evaluate">>

\* C4: after each evaluate the branch decision routes to improve if and only if
\* improvement_count < 3 and confidence < CONFIDENCE_THRESHOLD, both as they are
\* before the decision, and to terminal in every other case.
C4_BranchDecision ==
    [][pc = "branch" =>
          /\ pc' \in {"improve", "END"}
          /\ (pc' = "improve") <=>
                 (state.improvement_count < 3 /\ state.confidence < threshold)]_vars

\* C4 witness: a decision routed to terminal on the ceiling alone, the confidence
\* being below the threshold.
C4_Witness ==
    /\ pc = "END"
    /\ state.improvement_count = 3
    /\ state.confidence < threshold
    /\ state.response # {}

NoImproveIn(t) == \A i \in 1..Len(t) : t[i] # "improve"

\* C5: if confidence >= threshold right after the first evaluate, improve is
\* never invoked in that execution and improvement_count is 0 at terminal.
C5_FastPath ==
    /\ [][(pc = "branch" /\ Len(trace) = 4 /\ state.confidence >= threshold) =>
             /\ pc' = "END"
             /\ state'.improvement_count = 0
             /\ NoImproveIn(trace')]_vars
    /\ [][pc = "END" => (pc' = "idle" /\ trace' = trace /\ state' = state)]_vars

\* C5 witness: terminal reached with the confidence equal to the threshold, no
\* improve run.
C5_Witness ==
    /\ pc = "END"
    /\ Len(trace) = 4
    /\ state.confidence = threshold
    /\ state.improvement_count = 0

(***************************************************************************)
(* SpecLLM                                                                 *)
(***************************************************************************)
InitLLM ==
    /\ \E m \in Managers :
        /\ google_llm = m.google_llm
        /\ openai_llm = m.openai_llm
        /\ ollama_llm = m.ollama_llm
        /\ current_llm = m.current_llm
    /\ gen_provider = None
    /\ gen_oracle = NoOracle
    /\ gen_result = NoResult
    /\ WorkflowIdle
    /\ NoCoordinator

\* one call of generate_response(prompt, provider)
GenerateResponseCall ==
    \E provider \in Selectors, oracle \in LLMOracles :
        /\ gen_provider' = provider
        /\ gen_oracle' = oracle
        /\ gen_result' = GenerateResponse(provider, oracle)
        /\ UNCHANGED <<llm_vars, wf_vars, sys_vars>>

NextLLM == GenerateResponseCall

SpecLLM == InitLLM /\ [][NextLLM]_vars

(***************************************************************************)
(* Claims on generate_response                                             *)
(***************************************************************************)
\* a call was made
Called == gen_provider # None

\* the configured providers
Configured == {p \in Providers : Handle(p) # None}

\* the provider the selector of the call resolves to, or None
Primary ==
    IF gen_provider = "auto" THEN current_llm
    ELSE IF gen_provider \in Configured THEN gen_provider
    ELSE None

Calls == gen_result.calls

\* C6: if the primary provider's invocation succeeds, exactly one provider
\* invocation is made in the call: no other provider is invoked.
C6_SingleAttempt ==
    (Called /\ Primary # None /\ gen_oracle[Primary][1].ok) =>
        /\ Calls = <<[name |-> Primary, ok |-> TRUE]>>
        /\ gen_result.success

\* C6 witness: three providers configured, the selector "auto", the primary
\* succeeded and the others would have succeeded too.
C6_Witness ==
    /\ Called
    /\ gen_provider = "auto"
    /\ Configured = Providers
    /\ \A p \in Providers : gen_oracle[p][1].ok
    /\ Len(Calls) = 1

\* C7: in one call the fallback order excludes the provider tried as primary: each
\* configured provider is invoked at most once, and the invocations are no more
\* than the configured providers.
C7_NoProviderTwice ==
    Called =>
        /\ \A p \in Providers : TimesInvoked(Calls, p) <= 1
        /\ Len(Calls) <= Cardinality(Configured)

\* the first provider other than the primary, in the order google, openai, ollama,
\* that is configured and whose invocation succeeds
FirstOtherThatSucceeds ==
    LET ok == {i \in 1..3 : /\ ProviderOrder[i] # Primary
                            /\ ProviderOrder[i] \in Configured
                            /\ gen_oracle[ProviderOrder[i]][1].ok}
    IN  ProviderOrder[CHOOSE i \in ok : \A j \in ok : i <= j]

\* C8: when the primary's invocation fails and a secondary provider's invocation
\* succeeds, the call returns success tagged "fallback-<name>", <name> being the
\* first provider other than the primary, in the order google, openai, ollama,
\* whose invocation succeeds.
C8_FallbackTag ==
    (/\ Called
     /\ Primary # None
     /\ ~gen_oracle[Primary][1].ok
     /\ \E i \in 1..Len(Calls) : Calls[i].ok /\ Calls[i].name # Primary) =>
        /\ gen_result.success
        /\ gen_result.provider = "fallback-" \o FirstOtherThatSucceeds

\* C8 witness: the selector "auto", google the primary, google and openai failed
\* and ollama answered.
C8_Witness ==
    /\ Called
    /\ gen_provider = "auto"
    /\ Primary = "google"
    /\ Configured = Providers
    /\ gen_result.success
    /\ gen_result.provider = "fallback-ollama"

\* what the oracle says of the i-th invocation of the call
OracleOf(i) ==
    gen_oracle[Calls[i].name][TimesInvoked(SubSeq(Calls, 1, i - 1), Calls[i].name) + 1]

\* C9: when the primary resolves, the call reports failure (success False, "All
\* LLM providers failed") if and only if the invocations of the primary and of
\* every other configured provider failed; if a provider's invocation succeeds
\* the call returns success with that provider's text; a failure carries no
\* response text.
C9_FailureIffAllFailed ==
    (Called /\ Primary # None) =>
        /\ \A i \in 1..Len(Calls) : Calls[i].ok = OracleOf(i).ok
        /\ ~gen_result.success <=>
               /\ \A p \in Configured : TimesInvoked(Calls, p) >= 1
               /\ \A i \in 1..Len(Calls) : ~Calls[i].ok
        /\ ~gen_result.success =>
               /\ gen_result.error = "All LLM providers failed"
               /\ gen_result.response = NoText
        /\ \A i \in 1..Len(Calls) :
               Calls[i].ok =>
                   /\ gen_result.success
                   /\ gen_result.response = OracleOf(i).text
                   /\ gen_result.response = ProviderText(Calls[i].name)

\* C9 witness: three providers configured, every invocation failed, the call
\* reported failure.
C9_Witness ==
    /\ Called
    /\ Primary # None
    /\ Configured = Providers
    /\ ~gen_result.success
    /\ gen_result.error = "All LLM providers failed"

\* the selector resolves to no provider
Unresolved ==
    \/ gen_provider \in Providers /\ Handle(gen_provider) = None
    \/ gen_provider = "auto" /\ current_llm = None

\* C10: if the selector names a provider that is not configured, or is "auto"
\* with no default resolved, the call returns a failure at once and invokes no
\* provider, even when other providers are configured.
C10_UnresolvedFailsFast ==
    (Called /\ Unresolved) =>
        /\ ~gen_result.success
        /\ gen_result.error = "No LLM available"
        /\ gen_result.response = NoText
        /\ Calls = <<>>

\* C10 witness: openai selected and not configured, google configured and able to
\* answer, nothing invoked.
C10_Witness ==
    /\ Called
    /\ gen_provider = "openai"
    /\ openai_llm = None
    /\ google_llm # None
    /\ gen_oracle["google"][1].ok
    /\ Calls = <<>>

\* the first configured provider in the order google, openai, ollama, or None
FirstConfigured ==
    IF google_llm # None THEN google_llm
    ELSE IF openai_llm # None THEN openai_llm
    ELSE IF ollama_llm # None THEN ollama_llm
    ELSE None

\* C11: after construction, whatever was configured and wherever a provider's
\* constructor raised, "auto" resolves to the first configured provider handle in
\* the order google, openai, ollama, and to none only when no handle is
\* configured.
C11_AutoIsFirstConfigured ==
    /\ GetLLM("auto") = FirstConfigured
    /\ GetLLM("auto") = None => Configured = {}

(***************************************************************************)
(* Claims on the coordinator                                               *)
(***************************************************************************)
\* C12: process_query called while is_initialized is false returns success=false
\* with the error "System not initialized"; it makes no call (no workflow, no
\* retrieval, no generation) and leaves the coordinator, the persisted index and
\* the agent's state as they were.
C12_NotReadyRejected ==
    [][(~is_initialized /\ sys_op'.name = "process_query") =>
          /\ ~sys_result'.success
          /\ sys_result'.error = "System not initialized"
          /\ sys_calls' = <<>>
          /\ pc' = "idle"
          /\ gen_log' = {}
          /\ gen_calls' = 0
          /\ UNCHANGED <<sm_vars, disk, config_valid, llm_vars, gen_vars, agent_store>>]_vars

\* C12 witness: a query was rejected by a coordinator whose initialization had
\* failed after the index was built.
C12_Witness ==
    /\ sys_op.name = "process_query"
    /\ ~is_initialized
    /\ documents_processed
    /\ sys_result = NotInitialized

\* extraction or chunking came back with an empty list
EmptyCorpus(calls) == Ended(calls, "extract", "empty") \/ Ended(calls, "chunk", "empty")

\* C13: an initialize_system that loads no persisted index and gets an empty list
\* from extraction or from chunking returns success=false; it builds no index,
\* constructs no agent and leaves is_initialized as it was.
C13_EmptyCorpusFails ==
    [][(sys_op'.name = "initialize_system" /\ EmptyCorpus(sys_calls')) =>
          /\ ~Ended(sys_calls', "load", "ok")
          /\ ~sys_result'.success
          /\ sys_result'.error = "Document processing failed"
          /\ ~Made(sys_calls', "build")
          /\ disk' = disk
          /\ ~Made(sys_calls', "agent")
          /\ rag_agent' = rag_agent
          /\ is_initialized' = is_initialized
          /\ documents_processed' = documents_processed]_vars

\* C13 witness: a persisted index failed to load, extraction returned documents,
\* chunking returned none, and the coordinator is not ready.
C13_Witness ==
    /\ sys_op = [name |-> "initialize_system", force |-> FALSE]
    /\ Ended(sys_calls, "load", "false")
    /\ Ended(sys_calls, "chunk", "empty")
    /\ disk.exists
    /\ ~sys_result.success
    /\ ~is_initialized

\* no extraction, no chunking, no index building among the calls
NoProcessing(calls) ==
    ~Made(calls, "extract") /\ ~Made(calls, "chunk") /\ ~Made(calls, "build")

\* the step is an initialize_system(force_rebuild=false) that follows another
\* initialize_system, with an index persisted that does not fail to load
SecondInitialize ==
    /\ sys_op.name = "initialize_system"
    /\ sys_op' = [name |-> "initialize_system", force |-> FALSE]
    /\ disk.exists
    /\ ~Ended(sys_calls', "load", "false")

\* C14: a second initialize_system(force_rebuild=false), called when a persisted,
\* loadable index exists, makes no call of extraction, chunking or index building
\* and returns success.
C14_SecondInitSucceeds ==
    [][SecondInitialize => NoProcessing(sys_calls') /\ sys_result'.success]_vars

\* C14 amended: such a call makes no call of extraction, chunking or index
\* building; it returns success exactly when the configuration is valid and the
\* construction of the agent does not raise.
C14_SecondInitSkipsProcessing ==
    [][SecondInitialize =>
          /\ NoProcessing(sys_calls')
          /\ disk' = disk
          /\ sys_result'.success <=> (config_valid /\ Ended(sys_calls', "agent", "ok"))
          /\ sys_result'.success => is_initialized']_vars

\* C14 witness: on a coordinator that an earlier call made ready, an
\* initialize_system(force_rebuild=false) loaded the persisted index and failed on
\* the construction of the agent.
C14_Witness ==
    /\ sys_op = [name |-> "initialize_system", force |-> FALSE]
    /\ is_initialized
    /\ sys_calls = <<Call("validate", "ok"), Call("load", "ok"), Call("agent", "raise")>>
    /\ ~sys_result.success

(***************************************************************************)
(* Claims on the result of process_query                                   *)
(***************************************************************************)
\* the workflow ran to its end and process_query returned the result built from
\* the final state
Returned == pc = "idle" /\ result.query # None /\ result.workflow_steps # "N/A"

\* the index was searched and no chunk came back
NoChunks == agent_store # None /\ state.retrieved_documents = <<>>

\* C15: when retrieval returns zero chunks, whatever the providers do, the
\* generate stage sets error to "No context available for response generation",
\* the response is empty at terminal and process_query returns success=false.
C15_NoChunksFails ==
    /\ [][(pc = "generate" /\ NoChunks) =>
             state'.error = "No context available for response generation"]_vars
    /\ []((Returned /\ NoChunks) => (result.response = NoText /\ ~result.success))

\* some provider is configured, and every generation call of the execution ended
\* with all the providers it tried failing
AllProvidersFailed == Configured # {} /\ gen_log = {"fail"}

\* C16: when every configured provider fails on every invocation of a query whose
\* retrieved context is not empty, process_query returns success=false, the
\* error of the result reports that the providers were exhausted, and the result
\* carries no response text.
C16_AllProvidersFail ==
    (Returned /\ state.context # <<>> /\ AllProvidersFailed) =>
        /\ ~result.success
        /\ result.error = "Response generation failed: All LLM providers failed"
        /\ result.response = NoText

\* C17: a workflow that completes with a non-empty response makes process_query
\* return success=true with that response, whatever the final confidence is,
\* also when it is below the threshold with the three improvement attempts used.
C17_ResponseIsSuccess ==
    (Returned /\ state.response # {}) =>
        /\ result.success
        /\ result.response = state.response
        /\ result.confidence = state.confidence

\* C17 witness: the three attempts are used, the confidence is still below the
\* threshold, and the result is a success carrying the response.
C17_Witness ==
    /\ Returned
    /\ state.response # {}
    /\ state.improvement_count = 3
    /\ result.confidence < threshold
    /\ result.success

\* the nodes of the graph
Nodes == {"retrieve", "analyze", "generate", "evaluate", "branch", "improve"}

\* C18: process_query never passes an exception on to its caller. A fault of the
\* retrieval or of a provider is absorbed by the stage, which sets state.error or
\* a default and hands on to the next stage; a fault that escapes the workflow
\* ends the call with a result of success=false and a non-empty error.
C18_NoFaultPropagates ==
    /\ [][(pc \in Nodes /\ pc' = "idle") =>
             /\ ~result'.success
             /\ result'.error \notin {"", None}
             /\ result'.query = state.query
             /\ result'.response = NoText]_vars
    /\ [][(pc = "retrieve" /\ agent_store = None /\ pc' # "idle") =>
             (pc' = "analyze" /\ state'.error # "")]_vars
    /\ [][(pc = "generate" /\ state.context # <<>> /\ pc' # "idle"
           /\ state'.confidence = state.confidence) =>
             (pc' = "evaluate" /\ "fail" \in gen_log' /\ state'.error # "")]_vars

\* C18 witness: the engine raised during a query and the caller received the
\* failure envelope.
C18_Witness ==
    /\ pc = "idle"
    /\ result.query = "q"
    /\ ~result.success
    /\ result.workflow_steps = "N/A"
    /\ result.error = "Recursion limit reached"

\* the set of the sources a result names
SourceSet(r) == {r.sources[i] : i \in 1..Len(r.sources)}

\* C19: after a successful initialize_system over a corpus of a single chunk, a
\* query answered by providers that always succeed yields a non-empty response
\* and sources equal to {the source of that chunk}: the retrieve stage reads the
\* index that the coordinator built or loaded.
C19_RoundTrip ==
    (Returned /\ is_initialized /\ vector_store # None /\ disk.chunks = Chunks(1)
     /\ gen_log = {"ok"}) =>
        /\ result.response # NoText
        /\ SourceSet(result) = {Doc(1).source}

\* the lifecycle state a successful initialize_system leaves: ready
Ready == is_initialized /\ documents_processed /\ rag_agent # None

\* C20: from every coordinator state, the uninitialized one included, a
\* rebuild_vector_store that returns success leaves the coordinator ready, as
\* initialize_system(force_rebuild=true) would, so that a following
\* process_query is routed to the workflow.
C20_RebuildLeavesReady ==
    (sys_op.name = "rebuild_vector_store" /\ sys_result.success) =>
        /\ Ready
        /\ SystemProcessQuery(is_initialized, rag_agent).route = "workflow"

(***************************************************************************)
(* Claims on concurrent callers of one coordinator                         *)
(***************************************************************************)
\* C21: on one coordinator an index rebuild and a process_query are mutually
\* exclusive: in no interleaving of concurrent callers does the retrieve stage of
\* a query run while a rebuild has torn the index down and not yet rebuilt it.
C21_RebuildExcludesQuery ==
    [][(pc = "retrieve" /\ pc' = "analyze") => rebuild_pc = "idle"]_vars

(***************************************************************************)
(* Claims on the coordinator, continued                                    *)
(***************************************************************************)
\* C22: when the validation of the configuration fails, initialize_system
\* returns success=false with the configuration error, and validation is the
\* only call it made: no index load, no extraction, no chunking, no index build,
\* no construction of the agent, and the coordinator and the persisted index are
\* as they were.
C22_InvalidConfigFailsFast ==
    [][(sys_op'.name = "initialize_system" /\ ~config_valid) =>
          /\ ~sys_result'.success
          /\ sys_result'.error = "Configuration error"
          /\ sys_calls' = <<Call("validate", "raise")>>
          /\ UNCHANGED <<sm_vars, disk, agent_store>>]_vars

\* C22 witness: with an index persisted, an initialize_system failed on the
\* configuration and the coordinator is not ready.
C22_Witness ==
    /\ sys_op.name = "initialize_system"
    /\ ~config_valid
    /\ disk.exists
    /\ sys_result = InitFailure("Configuration error")
    /\ ~is_initialized
    /\ vector_store = None

(***************************************************************************)
(* Claims on the stages of the workflow                                    *)
(***************************************************************************)
\* the stages: the nodes that are not the branch decision
Stages == {"retrieve", "analyze", "generate", "evaluate", "improve"}

\* C23: a branch decision increments improvement_count by exactly 1 if and only
\* if it routes to improve; no stage (retrieve, analyze, generate, evaluate,
\* improve) changes improvement_count, so that the next branch decision sees the
\* incremented value.
C23_CounterOwnedByBranch ==
    [][/\ pc = "branch" =>
            state'.improvement_count =
                state.improvement_count + (IF pc' = "improve" THEN 1 ELSE 0)
       /\ pc \in Stages => state'.improvement_count = state.improvement_count
       /\ (pc = "evaluate" /\ Len(trace) >= 4) =>
            state'.improvement_count = (Len(trace) - 3) \div 2]_vars

\* C23 witness: the branch decision after the second improvement is about to be
\* taken and sees 2.
C23_Witness ==
    /\ pc = "branch"
    /\ trace = <<"retrieve", "analyze", "generate", "evaluate",
                 "improve", "evaluate", "improve", "evaluate">>
    /\ state.improvement_count = 2

\* C24: the improve stage requires a prior response: when response is empty as
\* improve runs, it issues no generation call and response stays empty.
C24_ImproveNeedsResponse ==
    [][(pc = "improve" /\ state.response = {}) =>
          (state'.response = {} /\ gen_calls' = gen_calls)]_vars

\* C25: when context is empty, the generate stage sets error and nothing else but
\* the step: it issues no generation call and leaves response and confidence
\* unchanged.
C25_GenerateWithoutContext ==
    [][(pc = "generate" /\ state.context = <<>>) =>
          /\ state' = [state EXCEPT
                          !.step = "generate",
                          !.error = "No context available for response generation"]
          /\ state'.response = state.response
          /\ state'.confidence = state.confidence
          /\ gen_calls' = gen_calls
          /\ gen_log' = gen_log]_vars

\* C25 witness: the index returned no chunk, generate has run without context
\* and the only generation call so far is the one of analyze.
C25_Witness ==
    /\ pc = "evaluate"
    /\ agent_store # None
    /\ state.step = "generate"
    /\ state.context = <<>>
    /\ state.error = "No context available for response generation"
    /\ gen_calls = 1

\* C26: when context is not empty, the generate stage issues exactly one
\* grounded-answer generation call; when the call succeeds it sets response to
\* the returned text and confidence to 0.8, when it fails it sets error and
\* leaves response empty.
C26_GenerateWithContext ==
    [][(pc = "generate" /\ state.context # <<>>) =>
          /\ gen_calls' = gen_calls + 1
          /\ \E oracle \in WorkflowOracles :
                LET r == GenerateMedicalResponse(oracle) IN
                IF r.success
                THEN /\ state' = [state EXCEPT !.step = "generate",
                                               !.response = r.response,
                                               !.confidence = 80]
                     /\ gen_log' = gen_log \cup {"ok"}
                ELSE /\ state' = [state EXCEPT
                                     !.step = "generate",
                                     !.error = "Response generation failed: " \o r.error]
                     /\ state'.response = {}
                     /\ gen_log' = gen_log \cup {"fail"}]_vars

\* C26 witness: the call of analyze failed, generate ran on a context of two
\* chunks and its call succeeded: the response and 0.8 are set.
C26_Witness ==
    /\ pc = "evaluate"
    /\ state.step = "generate"
    /\ Len(state.context) = 2
    /\ state.response = {"good"}
    /\ state.confidence = 80
    /\ gen_log = {"ok", "fail"}
    /\ gen_calls = 2

\* C27: when response is empty, the evaluate stage sets error and nothing else
\* but the step: it issues no generation call and leaves confidence and the
\* evaluation notes as they were.
C27_EvaluateWithoutResponse ==
    [][(pc = "evaluate" /\ state.response = {}) =>
          /\ state' = [state EXCEPT !.step = "evaluate",
                                    !.error = "No response to evaluate"]
          /\ state'.confidence = state.confidence
          /\ state'.evaluation = state.evaluation
          /\ gen_calls' = gen_calls
          /\ gen_log' = gen_log]_vars

\* C27 witness: an improvement returned the empty text on a response that was
\* empty already; the evaluate that followed left the confidence at 0.1 and the
\* analysis in the notes.
C27_Witness ==
    /\ pc = "branch"
    /\ state.step = "evaluate"
    /\ state.response = {}
    /\ state.confidence = 10
    /\ state.evaluation.query_analysis = {"other"}
    /\ state.error = "No response to evaluate"
    /\ gen_calls = 2

\* kw in assessment.lower(), spelled on the words
HasKeyword(assessment, kw) == kw \in {Lower(w) : w \in assessment}

\* the score the ordered policy gives an assessment: first match wins
PolicyScore(assessment) ==
    CASE HasKeyword(assessment, "confidence") -> 90
      [] ~HasKeyword(assessment, "confidence") /\ HasKeyword(assessment, "good") -> 80
      [] ~HasKeyword(assessment, "confidence") /\ ~HasKeyword(assessment, "good")
         /\ HasKeyword(assessment, "adequate") -> 60
      [] OTHER -> 50

\* C28: when the quality-evaluation call succeeds, evaluate stores the
\* assessment and sets confidence by the ordered keywords, first match wins, for
\* every combination of keywords in the assessment: "confidence" gives 0.9, else
\* "good" 0.8, else "adequate" 0.6, else 0.5, whatever the confidence was before.
C28_KeywordPolicy ==
    [][(pc = "evaluate" /\ state.response # {} /\ "ok" \in gen_log') =>
          /\ state'.evaluation.quality_assessment \in Assessments
          /\ state'.confidence = PolicyScore(state'.evaluation.quality_assessment)]_vars

\* C28 witness: an assessment with "Good" and "adequate" and without "confidence"
\* was scored 0.8.
C28_Witness ==
    /\ pc = "branch"
    /\ state.evaluation.quality_assessment = {"Good", "adequate", "other"}
    /\ state.confidence = 80
    /\ gen_log = {"ok"}

\* C29: when the response is non-empty and the quality-evaluation call fails, or
\* the evaluate stage raises, confidence is set to 0.5 whatever it was before, a
\* value at or above the threshold included.
C29_FailedEvaluationResets ==
    [][(pc = "evaluate" /\ state.response # {} /\ "ok" \notin gen_log') =>
          /\ state'.confidence = 50
          /\ state'.response = state.response
          /\ state'.evaluation = state.evaluation]_vars

\* C29 witness: the evaluation call failed under the lowest threshold, which
\* every confidence found beside a response reaches, and the confidence is 0.5.
C29_Witness ==
    /\ pc = "branch"
    /\ threshold = 10
    /\ \A c \in PriorConfidences : c >= threshold
    /\ gen_log = {"fail"}
    /\ state.error = ""
    /\ state.confidence = 50

\* previous confidence + 0.1, capped at 0.95
Raised(c) == IF c + 10 > 95 THEN 95 ELSE c + 10

WithoutAnalysis(s) == [s EXCEPT !.evaluation.query_analysis = NoText]

\* C31: a failed generation call of the analyze stage is not fatal. Analyze
\* leaves error, response and confidence as they were and adds no query_analysis
\* note; generate runs next, and what generate does is what it does after a
\* successful analysis: its effect does not read the note.
C31_FailedAnalysisNonFatal ==
    /\ [][(pc = "analyze" /\ gen_log' = {"fail"}) =>
             /\ state' = [state EXCEPT !.step = "analyze"]
             /\ state'.error = state.error
             /\ state'.response = state.response
             /\ state'.confidence = state.confidence
             /\ state'.evaluation.query_analysis = NoText
             /\ pc' = "generate"]_vars
    /\ [][(pc = "generate") =>
             /\ state'.evaluation = state.evaluation
             /\ \E oracle \in WorkflowOracles :
                   WithoutAnalysis(state')
                     = GenerateResponseNode(WithoutAnalysis(state),
                                            GenerateMedicalResponse(oracle))]_vars

\* C31 witness: the analysis call failed, no note and no error were left, and
\* generate then answered from the context.
C31_Witness ==
    /\ pc = "evaluate"
    /\ trace = <<"retrieve", "analyze", "generate">>
    /\ gen_log = {"fail", "ok"}
    /\ gen_calls = 2
    /\ state.evaluation.query_analysis = NoText
    /\ state.error = ""
    /\ state.response # {}
    /\ state.confidence = 80

\* C32: when the search returns an empty result, the retrieve stage sets error to
\* "No relevant documents found", leaves retrieved_documents, sources and context
\* empty, and the workflow continues with analyze.
C32_EmptyRetrieval ==
    [][(pc = "retrieve" /\ agent_store # None /\ state'.retrieved_documents = <<>>) =>
          /\ state' = [state EXCEPT !.step = "retrieve",
                                    !.error = "No relevant documents found"]
          /\ state'.sources = <<>>
          /\ state'.context = <<>>
          /\ pc' = "analyze"]_vars

\* C32 witness: the search of a loaded index found nothing; analyze is next.
C32_Witness ==
    /\ pc = "analyze"
    /\ agent_store = "index"
    /\ state.step = "retrieve"
    /\ state.error = "No relevant documents found"
    /\ state.retrieved_documents = <<>>
    /\ state.context = <<>>

\* the node the graph runs after node, by the edges and the two tests of the
\* branch: the error is not among what decides it
FollowingNode(node, s, thr) ==
    CASE node = "retrieve" -> "analyze"
      [] node = "analyze" -> "generate"
      [] node = "generate" -> "evaluate"
      [] node = "evaluate" -> "branch"
      [] node = "improve" -> "evaluate"
      [] node = "branch" ->
            IF s.improvement_count < 3 /\ s.confidence < thr THEN "improve" ELSE "END"

\* C33: once a stage has set error during a workflow execution, the remaining
\* stages run as the edges and the branch tests say, no later stage clears the
\* error, and the result process_query returns carries a non-empty error.
C33_ErrorIsNonFatal ==
    /\ [][(pc \in Nodes /\ state.error # "") =>
             /\ state'.error # ""
             /\ pc' = FollowingNode(pc, state, threshold)]_vars
    /\ [][(pc = "END" /\ state.error # "") =>
             /\ pc' = "idle"
             /\ result'.success
             /\ result'.error = state.error
             /\ result'.error \notin {"", None}]_vars

\* C33 witness: evaluate reported an empty response, improve and a second
\* evaluate still ran and succeeded, and the result returned carries the error
\* beside the response.
C33_Witness ==
    /\ Returned
    /\ trace = <<"retrieve", "analyze", "generate", "evaluate", "improve", "evaluate">>
    /\ result.error = "No response to evaluate"
    /\ result.response # NoText
    /\ result.confidence = 90

\* C34: every process_query starts from a fresh workflow state: improvement_count
\* 0, confidence 0.0, and response, retrieved documents, context, sources,
\* evaluation notes and error empty. No field an earlier query wrote, whatever its
\* outcome, is visible to a later query on the same agent.
C34_FreshStatePerQuery ==
    [][(pc = "idle" /\ pc' = "retrieve") =>
          /\ state'.query \in Queries
          /\ state'.improvement_count = 0
          /\ state'.confidence = 0
          /\ state'.response = {}
          /\ state'.retrieved_documents = <<>>
          /\ state'.context = <<>>
          /\ state'.sources = <<>>
          /\ state'.evaluation = [query_analysis |-> NoText, quality_assessment |-> NoText]
          /\ state'.error = ""
          /\ state'.step = "start"]_vars

\* C34 witness: a query has returned after three improvements, leaving a
\* response, notes and an error in its final state, and the agent accepts the
\* next query.
C34_Witness ==
    /\ Returned
    /\ state.improvement_count = 3
    /\ state.response # {}
    /\ state.error # ""
    /\ state.evaluation.quality_assessment # NoText
    /\ state.confidence > 0
    /\ ENABLED ProcessQuery

\* C35: in every coordinator state that calls of initialize_system,
\* rebuild_vector_store and process_query reach, is_initialized implies that
\* documents_processed is true and that rag_agent has been constructed; and the
\* ready state is entered only by an initialize_system that loaded or built the
\* index before it built the agent.
C35_ReadyImpliesIndexed ==
    /\ [](is_initialized => (documents_processed /\ rag_agent # None))
    /\ [][(~is_initialized /\ is_initialized') =>
             /\ sys_op'.name = "initialize_system"
             /\ sys_result'.success
             /\ documents_processed'
             /\ Ended(sys_calls', "load", "ok") \/ Ended(sys_calls', "build", "ok")
             /\ sys_calls'[Len(sys_calls')] = Call("agent", "ok")]_vars

\* C35 witness: a ready coordinator went through a rebuild that failed, and is
\* still ready, with documents_processed and its agent.
C35_Witness ==
    /\ sys_op.name = "rebuild_vector_store"
    /\ ~sys_result.success
    /\ is_initialized
    /\ documents_processed
    /\ rag_agent # None

\* the persisted index holds chunks
IndexPopulated(dsk) == dsk.exists /\ dsk.chunks # <<>>

\* C36: after any sequence of initialize_system, rebuild_vector_store and
\* process_query calls made one at a time, whenever process_query hands the
\* query to the workflow the index is populated: the last index operation was a
\* load or a build that succeeded, never a teardown followed by a rebuild that
\* failed.
C36_RoutedQueryHasIndex ==
    [][(pc = "idle" /\ sys_op'.name = "process_query" /\ pc' = "retrieve") =>
          IndexPopulated(disk)]_vars

\* C37: an initialize_system that returns success=false leaves the lifecycle
\* fields is_initialized, documents_processed and rag_agent as they were before
\* the call, at whatever point the call failed.
C37_FailedInitLeavesLifecycle ==
    [][(pc = "idle" /\ sys_op'.name = "initialize_system" /\ sys_calls' # <<>>
        /\ ~sys_result'.success) =>
          /\ is_initialized' = is_initialized
          /\ documents_processed' = documents_processed
          /\ rag_agent' = rag_agent]_vars

\* how many times node was run in the trace t
RECURSIVE Invocations(_, _)
Invocations(t, node) ==
    IF t = <<>> THEN 0
    ELSE (IF Head(t) = node THEN 1 ELSE 0) + Invocations(Tail(t), node)

\* the workflow reached END, or process_query has returned its result
Terminal == pc = "END" \/ Returned

\* C38: at the terminal of every workflow execution the improve stage has run
\* exactly improvement_count times and the evaluate stage exactly
\* improvement_count + 1 times: at most 3 improve and at most 4 evaluate
\* invocations per query.
C38_InvocationCounts ==
    Terminal =>
        /\ Invocations(trace, "improve") = state.improvement_count
        /\ Invocations(trace, "evaluate") = state.improvement_count + 1
        /\ Invocations(trace, "improve") <= 3
        /\ Invocations(trace, "evaluate") <= 4

\* C38 witness: an execution ended at the ceiling, after three improve and four
\* evaluate invocations.
C38_Witness ==
    /\ Returned
    /\ state.improvement_count = 3
    /\ Invocations(trace, "improve") = 3
    /\ Invocations(trace, "evaluate") = 4
    /\ Len(trace) = 10

\* the confidences the evaluate stage assigns beside a response
EvaluatedConfidences == {50, 60, 80, 90}

\* C39: at the terminal of every workflow execution whose response is not empty,
\* confidence is one of 0.5, 0.6, 0.8, 0.9: the value min(0.95, confidence + 0.1)
\* that improve wrote is overwritten by the evaluate that follows it and is never
\* the confidence returned to the caller.
C39_TerminalConfidence ==
    /\ (pc = "END" /\ state.response # {}) => state.confidence \in EvaluatedConfidences
    /\ (Returned /\ result.response # NoText) => result.confidence \in EvaluatedConfidences

\* C39 witness: every call of the execution succeeded, so each of the three
\* improve invocations raised an assessment of adequate to 0.7, and the result
\* returned has the 0.6 of the last evaluate.
C39_Witness ==
    /\ Returned
    /\ gen_log = {"ok"}
    /\ state.improvement_count = 3
    /\ result.response # NoText
    /\ result.confidence = 60
    /\ result.evaluation.quality_assessment = {"adequate"}

\* C40: at the terminal of every workflow execution that completes without a
\* fault escaping the workflow, the recorded stage, step, returned as
\* workflow_steps, is "evaluate", whatever path was taken and however many
\* improvements ran; only the envelope of an escaped fault carries another value.
C40_TerminalStep ==
    /\ (pc = "END") => state.step = "evaluate"
    /\ (pc = "idle" /\ result.query # None /\ result.success) =>
          result.workflow_steps = "evaluate"
    /\ (pc = "idle" /\ result.query # None /\ ~result.success) =>
          result.workflow_steps = "N/A"

\* C40 witness: nothing was retrieved and nothing generated, evaluate returned
\* early on the empty response at the ceiling of three improvements, and the
\* result names evaluate.
C40_Witness ==
    /\ pc = "idle"
    /\ result.success
    /\ result.query = "q"
    /\ result.response = NoText
    /\ result.error = "No response to evaluate"
    /\ state.improvement_count = 3
    /\ result.workflow_steps = "evaluate"

====
